---- MODULE Spec2Model ----
(***************************************************************************)
(* Model of ImageCompressor/script.js: the per-image compression pipeline  *)
(* (compressImage) and the batch loop that drives it (processFiles).       *)
(*                                                                         *)
(* One action is one browser task: an event listener (change, drop) or a   *)
(* callback (reader.onload, reader.onerror, img.onload, img.onerror),      *)
(* together with the promise continuation of processFiles that the         *)
(* callback's resolve/reject schedules as a microtask, which runs before   *)
(* any other task.                                                         *)
(***************************************************************************)
EXTENDS Integers, Sequences, FiniteSets

\* ------------------------------------------------------------------ bounds

MaxBatches == 2      \* processFiles invocations in one behaviour
MaxFiles == 3        \* files handed to processFiles in one behaviour, in total
MaxEncoded == 3      \* largest byte length the canvas encoder produces

\* ------------------------------------------------------- program constants

MAX_DIMENSION == 1920
\* quality = 0.25, in hundredths
quality == 25

\* ------------------------------------------------------------------ inputs

JPEG == "image/jpeg"
PNG == "image/png"
WEBP == "image/webp"
PDF == "application/pdf"

Types == {JPEG, PNG, WEBP, PDF}

\* A file name is the sequence of its '.'-separated segments.
NameOf(t) ==
    CASE t = JPEG -> <<"a", "jpg">>
      [] t = PNG -> <<"b", "png">>
      [] t = WEBP -> <<"c", "webp">>
      [] OTHER -> <<"d", "pdf">>

\* file.size of the input files, in bytes.
SizeOf(t) ==
    CASE t = JPEG -> 2
      [] t = PNG -> 3
      [] t = WEBP -> 2
      [] OTHER -> 1

\* A File: a Blob with a name.
File(t) == [kind |-> "File", name |-> NameOf(t), type |-> t, size |-> SizeOf(t)]

FileSet == {File(t) : t \in Types}

RECURSIVE SeqsUpTo(_, _)
SeqsUpTo(S, n) ==
    IF n = 0 THEN {<<>>}
    ELSE LET shorter == SeqsUpTo(S, n - 1)
         IN shorter \cup {Append(q, x) : q \in {r \in shorter : Len(r) = n - 1}, x \in S}

FileLists == SeqsUpTo(FileSet, MaxFiles)

\* Natural sizes an image can decode to (width and height are >= 1).
Dimensions == {1, MAX_DIMENSION + 1}

BatchIds == 1..MaxBatches

\* --------------------------------------------- compressImage (the pipeline)

\* reader.readAsDataURL(file): the data URL of the file's own bytes.
readAsDataURL(file) ==
    [base64 |-> TRUE, contentType |-> file.type, size |-> file.size]

\* JavaScript numbers are IEEE 754 doubles. A positive double is kept as
\* [sig, exp], of value sig * 2^(-exp), where sig is a natural number of at most
\* Precision significant bits. A natural number is a sequence of limbs, each
\* below Base, least significant first.
Precision == 53

LimbBits == 13

Base == 2 ^ LimbBits

\* Bit k of N, bit 0 being the least significant.
Bit(N, k) == (N[(k \div LimbBits) + 1] \div (2 ^ (k % LimbBits))) % 2

\* The number of bits of N up to its leading 1.
BitLength(N) ==
    IF \A i \in 1..Len(N) : N[i] = 0 THEN 0
    ELSE LET top == CHOOSE i \in 1..Len(N) :
                        N[i] # 0 /\ \A j \in (i + 1)..Len(N) : N[j] = 0
             len == CHOOSE k \in 1..LimbBits :
                        2 ^ (k - 1) <= N[top] /\ N[top] < 2 ^ k
         IN (top - 1) * LimbBits + len

\* N with its bits below bit k cleared.
ClearBelow(N, k) ==
    [i \in 1..Len(N) |->
        IF i - 1 < k \div LimbBits THEN 0
        ELSE IF i - 1 = k \div LimbBits
             THEN (N[i] \div (2 ^ (k % LimbBits))) * (2 ^ (k % LimbBits))
             ELSE N[i]]

RECURSIVE AddAt(_, _, _)
\* N + a * Base^(i-1).
AddAt(N, i, a) ==
    IF a = 0 THEN N
    ELSE IF i > Len(N) THEN Append(N, a)
    ELSE AddAt([N EXCEPT ![i] = (N[i] + a) % Base], i + 1, (N[i] + a) \div Base)

RECURSIVE Times(_, _, _)
\* N * x + carry.
Times(N, x, carry) ==
    IF N = <<>>
    THEN IF carry = 0 THEN <<>>
         ELSE <<carry % Base>> \o Times(<<>>, x, carry \div Base)
    ELSE <<(N[1] * x + carry) % Base>>
             \o Times(Tail(N), x, (N[1] * x + carry) \div Base)

RECURSIVE ToInt(_)
ToInt(N) == IF N = <<>> THEN 0 ELSE N[1] + Base * ToInt(Tail(N))

\* Round to nearest, ties to even, at Precision significant bits; inexact says
\* that the number rounded lies strictly above N (and below N + 1).
RoundToPrecision(N, inexact) ==
    LET t == BitLength(N) - Precision
    IN IF t <= 0 THEN N
       ELSE LET guard == Bit(N, t - 1) = 1
                sticky == inexact \/ \E k \in 0..(t - 2) : Bit(N, k) = 1
                up == guard /\ (sticky \/ Bit(N, t) = 1)
                kept == ClearBelow(N, t)
            IN IF up THEN AddAt(kept, (t \div LimbBits) + 1, 2 ^ (t % LimbBits))
               ELSE kept

RECURSIVE LongDivision(_, _, _)
\* The first k limbs after the point of rem / d, for 0 <= rem < d, and what is
\* left of the dividend.
LongDivision(rem, d, k) ==
    IF k = 0 THEN [digits |-> <<>>, rem |-> rem]
    ELSE LET rest == LongDivision((rem * Base) % d, d, k - 1)
         IN [digits |-> Append(rest.digits, (rem * Base) \div d), rem |-> rest.rem]

\* Limbs after the point kept by a division: more than Precision bits and a
\* guard bit, for a quotient above 2^(-LimbBits).
FractionLimbs == 6

\* n / d in double arithmetic, for integers 0 < n < d.
FloatDiv(n, d) ==
    LET q == LongDivision(n, d, FractionLimbs)
    IN [sig |-> RoundToPrecision(q.digits, q.rem # 0),
        exp |-> FractionLimbs * LimbBits]

\* x * r in double arithmetic, for an integer x >= 1 and a double r.
FloatMul(x, r) == [sig |-> RoundToPrecision(Times(r.sig, x, 0), FALSE), exp |-> r.exp]

\* Assigning a double to canvas.width or canvas.height (an unsigned long)
\* truncates it.
ToUnsignedLong(f) ==
    LET whole == SubSeq(f.sig, (f.exp \div LimbBits) + 1, Len(f.sig))
    IN ToInt(whole) \div (2 ^ (f.exp % LimbBits))

\* Resize logic. ratio = Math.min(MAX_DIMENSION / width, MAX_DIMENSION / height):
\* the smaller quotient is the one by the larger side, which exceeds
\* MAX_DIMENSION where the ratio is used.
Ratio(width, height) ==
    IF height <= width
    THEN FloatDiv(MAX_DIMENSION, width)
    ELSE FloatDiv(MAX_DIMENSION, height)

CanvasSize(width, height) ==
    IF width > MAX_DIMENSION \/ height > MAX_DIMENSION
    THEN LET ratio == Ratio(width, height)
         IN [width |-> ToUnsignedLong(FloatMul(width, ratio)),
             height |-> ToUnsignedLong(FloatMul(height, ratio))]
    ELSE [width |-> width, height |-> height]

\* The natural sizes of the images decoded in a direct call of compressImage:
\* small, at the threshold, just above it, and large.
NaturalSizes == {1, 1611, MAX_DIMENSION, MAX_DIMENSION + 1, 2148, 2 * MAX_DIMENSION}

\* CanvasSize, tabulated over the sizes used.
Canvas ==
    [width \in Dimensions \cup NaturalSizes, height \in Dimensions \cup NaturalSizes |->
        CanvasSize(width, height)]

\* Quality/format logic: the branch on file.type.
EncodeParams(type) ==
    CASE type = JPEG -> [supported |-> TRUE, mimeType |-> JPEG, quality |-> quality]
      [] type = PNG -> [supported |-> TRUE, mimeType |-> WEBP, quality |-> quality]
      [] type = WEBP -> [supported |-> TRUE, mimeType |-> WEBP, quality |-> quality]
      [] OTHER -> [supported |-> FALSE, mimeType |-> "", quality |-> 0]

\* The types the canvas encoder answers a request for mimeType with: the type
\* asked for, or image/png where the browser cannot encode that type, which
\* happens for image/webp. The type of the Blob is read back from the data URL.
EncoderTypes(mimeType) == IF mimeType = WEBP THEN {WEBP, PNG} ELSE {mimeType}

\* canvas.toDataURL(mimeType, quality). A canvas with no pixels gives "data:,",
\* which has no ";base64," part. encoded is what the encoder produced.
toDataURL(canvas, encoded) ==
    IF canvas.width = 0 \/ canvas.height = 0
    THEN [base64 |-> FALSE, contentType |-> "", size |-> 0]
    ELSE [base64 |-> TRUE, contentType |-> encoded.type, size |-> encoded.size]

\* Data URL to Blob: split on ";base64,", atob, new Blob. For "data:," parts[1]
\* is undefined and window.atob throws.
DataUrlToBlob(dataUrl) ==
    IF dataUrl.base64
    THEN [threw |-> FALSE,
          blob |-> [kind |-> "Blob", name |-> <<>>, type |-> dataUrl.contentType,
                    size |-> dataUrl.size]]
    ELSE [threw |-> TRUE,
          blob |-> [kind |-> "Blob", name |-> <<>>, type |-> "", size |-> 0]]

\* SizeGuarantee without the fallback branch.
SizeGuaranteeNoFallback(file, originalDataUrl, compressedDataUrl, compressedBlob) ==
    [compressedDataUrl |-> compressedDataUrl,
     compressedBlob |-> compressedBlob,
     compressedSize |-> compressedBlob.size]

\* SizeGuarantee with > in place of >=.
SizeGuaranteeStrict(file, originalDataUrl, compressedDataUrl, compressedBlob) ==
    IF compressedBlob.size > file.size
    THEN [compressedDataUrl |-> originalDataUrl,
          compressedBlob |-> file,
          compressedSize |-> file.size]
    ELSE [compressedDataUrl |-> compressedDataUrl,
          compressedBlob |-> compressedBlob,
          compressedSize |-> compressedBlob.size]

\* Size guarantee fallback: what the promise is resolved with.
SizeGuarantee(file, originalDataUrl, compressedDataUrl, compressedBlob) ==
    LET originalSize == file.size
        compressedSize == compressedBlob.size
    IN IF compressedSize >= originalSize
       THEN [compressedDataUrl |-> originalDataUrl,
             compressedBlob |-> file,
             compressedSize |-> originalSize]
       ELSE [compressedDataUrl |-> compressedDataUrl,
             compressedBlob |-> compressedBlob,
             compressedSize |-> compressedSize]

NoResult ==
    [compressedDataUrl |-> [base64 |-> FALSE, contentType |-> "", size |-> 0],
     compressedBlob |-> [kind |-> "Blob", name |-> <<>>, type |-> "", size |-> 0],
     compressedSize |-> 0]

NoBlob == NoResult.compressedBlob

\* How a callback ends: resolve(value), reject(new Error(message)), or an
\* exception that escapes the callback, which leaves the promise pending.
\* reencoded is the callback's local compressedBlob, when it got that far.
Resolve(value, reencoded) ==
    [kind |-> "resolve", value |-> value, message |-> "", reencoded |-> reencoded]
Reject(message) ==
    [kind |-> "reject", value |-> NoResult, message |-> message, reencoded |-> NoBlob]
Throw ==
    [kind |-> "throw", value |-> NoResult, message |-> "", reencoded |-> NoBlob]

\* The body of img.onload, for an image of natural size width x height
\* whose canvas the encoder turns into encoded.
imgOnload(file, width, height, encoded) ==
    LET originalDataUrl == readAsDataURL(file)
        canvas == Canvas[width, height]
        params == EncodeParams(file.type)
        compressedDataUrl == toDataURL(canvas, encoded)
        converted == DataUrlToBlob(compressedDataUrl)
    IN IF ~params.supported THEN Reject("Unsupported file format.")
       ELSE IF converted.threw THEN Throw
       ELSE Resolve(SizeGuarantee(file, originalDataUrl, compressedDataUrl,
                                  converted.blob),
                    converted.blob)

\* The steps img.onload performs for file, in order, up to how it ends: the
\* canvas is drawn before the branch on file.type, the encoder is called after.
imgOnloadSteps(file, outcome) ==
    <<"render">>
        \o (IF EncodeParams(file.type).supported THEN <<"encode">> ELSE <<>>)
        \o <<outcome.kind>>

imgOnerror == Reject("Failed to load image.")
readerOnerror == Reject("Failed to read file.")

\* ------------------------------------------------------- createResultCard

Last(q) == q[Len(q)]

\* Stem that leaves the extension in place.
StemKeepsExtension(name) == name

\* originalFile.name.replace(/\.[^/.]+$/, ""): the name without its last
\* '.'-segment, when there is a dot followed by at least one character.
Stem(name) ==
    IF Len(name) > 1 /\ Last(name) # ""
    THEN SubSeq(name, 1, Len(name) - 1)
    ELSE name

\* The card built for one result. fileName is the download name: stem,
\* "_compressed" suffix or not, and extension ("" when the name is untouched).
createResultCard(originalFile, finalDataUrl, finalSize, finalBlob) ==
    LET originalSize == originalFile.size
        originalFormat == Last(originalFile.name)
        isWebP == finalBlob.type = WEBP
        finalExtension == IF isWebP THEN "webp" ELSE originalFormat
    IN [name |-> originalFile.name,
        originalSize |-> originalSize,
        finalSize |-> finalSize,
        preview |-> finalDataUrl,
        blob |-> finalBlob,
        reductionText |-> IF finalSize < originalSize
                          THEN "Reduction" ELSE "Used Original",
        fileName |-> IF finalSize < originalSize
                     THEN [stem |-> Stem(originalFile.name), compressed |-> TRUE,
                           ext |-> finalExtension]
                     ELSE [stem |-> originalFile.name, compressed |-> FALSE,
                           ext |-> ""]]

\* ---------------------------------------------------------- processFiles

\* showToast(message, type): the notice shown. about and the fields after it
\* stand for the message text.
showToast(about, name, message, count, type) ==
    [about |-> about, name |-> name, message |-> message, count |-> count,
     type |-> type]

NoneSupportedToast == showToast("none-supported", <<>>, "", 0, "error")
FailedToast(file, error) == showToast("failed", file.name, error, 0, "error")
CompleteToast(count) == showToast("complete", <<>>, "", count, "success")

\* IsSupported without the WebP disjunct.
IsSupportedNoWebp(file) ==
    file.type = JPEG \/ file.type = PNG

\* IsSupported that lets every type through.
IsSupportedAny(file) == file.type = file.type

\* The filter on file.type.
IsSupported(file) ==
    file.type = JPEG \/ file.type = PNG \/ file.type = WEBP

SupportedFiles(fl) == SelectSeq(fl, IsSupported)

\* ProgressWidth computed before completedCount is incremented.
ProgressWidthStale(count, total) == <<(count - 1) * 100, total>>

\* progressBar.style.width, (completedCount / total) * 100 percent, kept as the
\* fraction <<numerator, denominator>>.
ProgressWidth(count, total) == <<count * 100, total>>

\* InvokedAtEntry of a loop that does not await: every invocation starts at once.
InvokedAtEntryAll(n) == 1..n

\* for (const file of supportedFiles) { ... await compressImage(file) ... }:
\* the invocations started when the loop is entered, and those started once
\* the invocation for the k-th file has settled and its outcome is handled.
InvokedAtEntry(n) == IF n >= 1 THEN {1} ELSE {}
InvokedAfter(k, n) == IF k < n THEN {k + 1} ELSE {}

\* The loop is left after the body of the last file.
LoopDone(k, n) == k = n

\* Catches of a loop body without the try/catch.
CatchesNothing(outcome) == outcome.kind = "caught"

\* try { await compressImage(file) ... } catch (error) { ... }: the rejections
\* the loop body handles itself.
Catches(outcome) == outcome.kind = "reject"

\* NextCount without the increment in the catch.
NextCountSuccessOnly(count, outcome) ==
    IF outcome.kind = "resolve" THEN count + 1 ELSE count

\* completedCount++, in the try and in the catch.
NextCount(count, outcome) == count + 1

\* AppendCard that inserts the card before the others.
PrependCard(container, entry) == <<entry>> \o container

\* resultsContainer.appendChild(desktopCard), and the same for the carousel.
AppendCard(container, entry) == Append(container, entry)

\* ClearResults that keeps what the container holds.
ClearResultsKeeps(container) == container

\* resultsContainer.innerHTML = '', and the same for the carousel.
ClearResults(container) == <<>>

RECURSIVE TotalLen(_, _)
\* The number of files in the lists f[1..n].
TotalLen(f, n) == IF n = 0 THEN 0 ELSE TotalLen(f, n - 1) + Len(f[n])

VARIABLES
    pc,                     \* per processFiles call: idle, running, returned,
                            \* complete, failed (ended with an error)
    files,                  \* per call: the FileList it was given
    supportedFiles,         \* per call: the filtered array
    completedCount,         \* per call: the local counter
    calls,                  \* per call, per supported file: state of compressImage
    emitted,                \* per call: what it invoked and showed, in order
    resultsContainer,       \* the cards in #results-container
    mobileResultsCarousel,  \* the cards in #mobile-results-carousel
    resultsSectionHidden,   \* 'hidden' class of #results-section
    progressIndicatorHidden,\* 'hidden' class of #progress-indicator
    fileCountSpan,          \* text of #file-count
    progressBar,            \* style.width of #progress-bar, <<>> while unset
    pcAtCall,               \* per call: pc of every call when it was made (history)
    direct                  \* a call of compressImage on its own: its stage, file,
                            \* steps performed, image size, canvas and outcome

vars == <<pc, files, supportedFiles, completedCount, calls, emitted,
          resultsContainer, mobileResultsCarousel, resultsSectionHidden,
          progressIndicatorHidden, fileCountSpan, progressBar, pcAtCall, direct>>

batch == <<pc, files, supportedFiles, completedCount, calls, emitted, pcAtCall>>

dom == <<resultsContainer, mobileResultsCarousel, resultsSectionHidden,
         progressIndicatorHidden, fileCountSpan, progressBar>>

Init ==
    /\ pc = [b \in BatchIds |-> "idle"]
    /\ files = [b \in BatchIds |-> <<>>]
    /\ supportedFiles = [b \in BatchIds |-> <<>>]
    /\ completedCount = [b \in BatchIds |-> 0]
    /\ calls = [b \in BatchIds |-> <<>>]
    /\ emitted = [b \in BatchIds |-> <<>>]
    /\ resultsContainer = <<>>
    /\ mobileResultsCarousel = <<>>
    /\ resultsSectionHidden = TRUE
    /\ progressIndicatorHidden = TRUE
    /\ fileCountSpan = 0
    /\ progressBar = <<>>
    /\ pcAtCall = [b \in BatchIds |-> [c \in BatchIds |-> "idle"]]
    /\ direct = [stage |-> "idle", file |-> File(PDF), steps |-> <<>>,
                 natural |-> <<>>, canvas |-> <<>>, outcome |-> Throw]

Invoke(i) == [ev |-> "invoke", idx |-> i]
Settled(i, outcome) ==
    [ev |-> "settle", idx |-> i, kind |-> outcome.kind, value |-> outcome.value,
     reencoded |-> outcome.reencoded]
Card(i, card) == [ev |-> "card", idx |-> i, card |-> card]
Toast(i, toast) == [ev |-> "toast", idx |-> i, toast |-> toast]
Progress(i, width) == [ev |-> "progress", idx |-> i, width |-> width]

RECURSIVE Invocations(_, _)
\* The invoke events of the indices of S up to n, in ascending order.
Invocations(S, n) ==
    IF n = 0 THEN <<>>
    ELSE Invocations(S, n - 1) \o (IF n \in S THEN <<Invoke(n)>> ELSE <<>>)

\* compressImage(file) up to reader.readAsDataURL(file).
Started(status, S) ==
    [i \in DOMAIN status |-> IF i \in S THEN "reading" ELSE status[i]]

\* processFiles(fl), up to its first await or its return, as call b.
processFiles(b, fl) ==
    LET sup == SupportedFiles(fl)
        n == Len(sup)
        first == InvokedAtEntry(n)
    IN /\ pc[b] = "idle"
       /\ \A c \in BatchIds : c < b => pc[c] # "idle"
       /\ TotalLen(files, MaxBatches) + Len(fl) <= MaxFiles
       /\ files' = [files EXCEPT ![b] = fl]
       /\ supportedFiles' = [supportedFiles EXCEPT ![b] = sup]
       /\ pcAtCall' = [pcAtCall EXCEPT ![b] = pc]
       /\ resultsContainer' = ClearResults(resultsContainer)
       /\ mobileResultsCarousel' = ClearResults(mobileResultsCarousel)
       /\ UNCHANGED direct
       /\ IF n = 0
          THEN /\ resultsSectionHidden' = TRUE
               /\ emitted' = [emitted EXCEPT ![b] =
                     IF Len(fl) > 0 THEN <<Toast(0, NoneSupportedToast)>> ELSE <<>>]
               /\ pc' = [pc EXCEPT ![b] = "returned"]
               /\ UNCHANGED <<completedCount, calls, progressIndicatorHidden,
                              fileCountSpan, progressBar>>
          ELSE /\ resultsSectionHidden' = FALSE
               /\ progressIndicatorHidden' = FALSE
               /\ fileCountSpan' = n
               /\ completedCount' = [completedCount EXCEPT ![b] = 0]
               /\ calls' = [calls EXCEPT ![b] = Started([i \in 1..n |-> "none"], first)]
               /\ emitted' = [emitted EXCEPT ![b] = Invocations(first, n)]
               /\ pc' = [pc EXCEPT ![b] = "running"]
               /\ UNCHANGED progressBar

\* hiddenFileInput 'change' listener.
FileInputChange ==
    \E fl \in FileLists : \E b \in BatchIds :
        /\ Len(fl) > 0
        /\ processFiles(b, fl)

\* dropArea 'drop' listener.
Drop ==
    \E fl \in FileLists : \E b \in BatchIds : processFiles(b, fl)

\* The rest of the loop body of call b once compressImage for its i-th file
\* settled with outcome (the try after the await, or the catch), and the loop's
\* next step: the next invocation, or the code after the loop. A rejection the
\* loop does not catch ends processFiles with the error.
Continue(b, i, outcome) ==
    LET file == supportedFiles[b][i]
        n == Len(supportedFiles[b])
        count == NextCount(completedCount[b], outcome)
        width == ProgressWidth(count, n)
        next == InvokedAfter(i, n)
        card == createResultCard(file, outcome.value.compressedDataUrl,
                                 outcome.value.compressedSize,
                                 outcome.value.compressedBlob)
        entry == [batch |-> b, idx |-> i, card |-> card]
        shown == IF outcome.kind = "resolve"
                 THEN <<Settled(i, outcome), Card(i, card), Progress(i, width)>>
                 ELSE <<Settled(i, outcome),
                        Toast(i, FailedToast(file, outcome.message)),
                        Progress(i, width)>>
        after == IF LoopDone(i, n)
                 THEN <<Toast(0, CompleteToast(count))>>
                 ELSE Invocations(next, n)
        status == IF outcome.kind = "resolve" THEN "resolved" ELSE "rejected"
    IN IF outcome.kind = "reject" /\ ~Catches(outcome)
       THEN /\ calls' = [calls EXCEPT ![b][i] = status]
            /\ emitted' = [emitted EXCEPT ![b] = Append(emitted[b], Settled(i, outcome))]
            /\ pc' = [pc EXCEPT ![b] = "failed"]
            /\ UNCHANGED <<files, supportedFiles, completedCount, dom, pcAtCall, direct>>
       ELSE /\ completedCount' = [completedCount EXCEPT ![b] = count]
            /\ progressBar' = width
            /\ IF outcome.kind = "resolve"
               THEN /\ resultsContainer' = AppendCard(resultsContainer, entry)
                    /\ mobileResultsCarousel' = AppendCard(mobileResultsCarousel, entry)
               ELSE UNCHANGED <<resultsContainer, mobileResultsCarousel>>
            /\ calls' = [calls EXCEPT ![b] =
                  Started([calls[b] EXCEPT ![i] = status], next)]
            /\ emitted' = [emitted EXCEPT ![b] = emitted[b] \o shown \o after]
            /\ IF LoopDone(i, n)
               THEN /\ progressIndicatorHidden' = TRUE
                    /\ pc' = [pc EXCEPT ![b] = "complete"]
               ELSE UNCHANGED <<progressIndicatorHidden, pc>>
            /\ UNCHANGED <<files, supportedFiles, resultsSectionHidden, fileCountSpan,
                           pcAtCall, direct>>

\* A callback of call b's i-th invocation ends with outcome.
Settle(b, i, outcome) ==
    IF outcome.kind = "throw"
    THEN /\ calls' = [calls EXCEPT ![b][i] = "threw"]
         /\ emitted' = [emitted EXCEPT ![b] = Append(emitted[b], Settled(i, outcome))]
         /\ UNCHANGED <<pc, files, supportedFiles, completedCount, dom, pcAtCall, direct>>
    ELSE Continue(b, i, outcome)

\* reader.onload: the file is read, the image starts to decode.
ReaderOnload ==
    \E b \in BatchIds : \E i \in DOMAIN calls[b] :
        /\ calls[b][i] = "reading"
        /\ calls' = [calls EXCEPT ![b][i] = "decoding"]
        /\ UNCHANGED <<pc, files, supportedFiles, completedCount, emitted, dom,
                       pcAtCall, direct>>

\* reader.onerror
ReaderOnerror ==
    \E b \in BatchIds : \E i \in DOMAIN calls[b] :
        /\ calls[b][i] = "reading"
        /\ Settle(b, i, readerOnerror)

\* img.onload, for every natural size and every encoder output.
ImgOnload ==
    \E b \in BatchIds : \E i \in DOMAIN calls[b] :
        /\ calls[b][i] = "decoding"
        /\ \E width \in Dimensions, height \in Dimensions, size \in 1..MaxEncoded :
           \E type \in EncoderTypes(EncodeParams(supportedFiles[b][i].type).mimeType) :
              Settle(b, i, imgOnload(supportedFiles[b][i], width, height,
                                     [type |-> type, size |-> size]))

\* img.onerror
ImgOnerror ==
    \E b \in BatchIds : \E i \in DOMAIN calls[b] :
        /\ calls[b][i] = "decoding"
        /\ Settle(b, i, imgOnerror)

Next ==
    \/ FileInputChange
    \/ Drop
    \/ ReaderOnload
    \/ ReaderOnerror
    \/ ImgOnload
    \/ ImgOnerror

Spec == Init /\ [][Next]_vars

\* A callback of call b runs.
Callback(b) ==
    /\ ReaderOnload \/ ReaderOnerror \/ ImgOnload \/ ImgOnerror
    /\ calls'[b] # calls[b]

\* Every file read and every image decode eventually fires its load or its
\* error callback.
FairSpec == Spec /\ \A b \in BatchIds : WF_vars(Callback(b))

\* ------------------------------------------- compressImage called by itself

\* compressImage(file) up to reader.readAsDataURL(file), for any file.
CompressImage ==
    \E file \in FileSet :
        /\ direct.stage = "idle"
        /\ direct' = [direct EXCEPT !.stage = "reading", !.file = file,
                                    !.steps = <<"read">>]
        /\ UNCHANGED <<batch, dom>>

\* reader.onload: img.src = event.target.result starts the decode.
DirectReaderOnload ==
    /\ direct.stage = "reading"
    /\ direct' = [direct EXCEPT !.stage = "decoding", !.steps = @ \o <<"decode">>]
    /\ UNCHANGED <<batch, dom>>

\* reader.onerror
DirectReaderOnerror ==
    /\ direct.stage = "reading"
    /\ direct' = [direct EXCEPT !.stage = "ended", !.outcome = readerOnerror,
                                !.steps = @ \o <<readerOnerror.kind>>]
    /\ UNCHANGED <<batch, dom>>

\* img.onload, for every natural size and every encoder output.
DirectImgOnload ==
    /\ direct.stage = "decoding"
    /\ \E width \in NaturalSizes, height \in NaturalSizes, size \in 1..MaxEncoded :
       \E type \in EncoderTypes(EncodeParams(direct.file.type).mimeType) :
          LET outcome == imgOnload(direct.file, width, height,
                                   [type |-> type, size |-> size])
          IN direct' = [direct EXCEPT !.stage = "ended",
                                      !.natural = <<width, height>>,
                                      !.canvas = Canvas[width, height],
                                      !.outcome = outcome,
                                      !.steps = @ \o imgOnloadSteps(direct.file, outcome)]
    /\ UNCHANGED <<batch, dom>>

\* img.onerror
DirectImgOnerror ==
    /\ direct.stage = "decoding"
    /\ direct' = [direct EXCEPT !.stage = "ended", !.outcome = imgOnerror,
                                !.steps = @ \o <<imgOnerror.kind>>]
    /\ UNCHANGED <<batch, dom>>

NextPipeline ==
    \/ CompressImage
    \/ DirectReaderOnload
    \/ DirectReaderOnerror
    \/ DirectImgOnload
    \/ DirectImgOnerror

PipelineSpec == Init /\ [][NextPipeline]_vars

\* ------------------------------------------------------------ properties

WasCalled(b) == pc[b] # "idle"

\* The events of kind ev that call b emitted, in order.
Events(b, ev) == SelectSeq(emitted[b], LAMBDA e : e.ev = ev)

\* The compressImage invocations of call b that resolved.
Resolved(b) == SelectSeq(emitted[b], LAMBDA e : e.ev = "settle" /\ e.kind = "resolve")

Range(q) == {q[k] : k \in DOMAIN q}

\* C1: every result compressImage resolves with has compressedSize, and a
\* compressedBlob of size, at most the size of the original file.
SizeInvariant ==
    \A b \in BatchIds : \A e \in Range(Resolved(b)) :
        /\ e.value.compressedSize <= supportedFiles[b][e.idx].size
        /\ e.value.compressedBlob.size <= supportedFiles[b][e.idx].size

\* C1 witness: an invocation resolved whose re-encoding was larger than the
\* original file, and one whose re-encoding was smaller.
SizeInvariantWitness ==
    \E b \in BatchIds : \E e, f \in Range(Resolved(b)) :
        /\ e.reencoded.size > supportedFiles[b][e.idx].size
        /\ f.reencoded.size < supportedFiles[b][f.idx].size

\* C2: a re-encoding at least as long as the original (equality included)
\* resolves with the input file itself, its type, its size and its data URL,
\* not the re-encoded blob; a strictly shorter one resolves with the re-encoded
\* blob, its data URL and its size.
FallbackCorrect ==
    \A b \in BatchIds : \A e \in Range(Resolved(b)) :
        LET file == supportedFiles[b][e.idx]
        IN IF e.reencoded.size >= file.size
           THEN /\ e.value.compressedBlob = file
                /\ e.value.compressedBlob.type = file.type
                /\ e.value.compressedSize = file.size
                /\ e.value.compressedDataUrl = readAsDataURL(file)
                /\ e.value.compressedBlob # e.reencoded
           ELSE /\ e.value.compressedBlob = e.reencoded
                /\ e.value.compressedSize = e.reencoded.size
                /\ e.value.compressedDataUrl.size = e.reencoded.size
                /\ e.value.compressedDataUrl.contentType = e.reencoded.type

\* C2 witness: an invocation resolved whose re-encoding had exactly the
\* original's length.
FallbackCorrectWitness ==
    \E b \in BatchIds : \E e \in Range(Resolved(b)) :
        /\ e.reencoded.size = supportedFiles[b][e.idx].size
        /\ e.value.compressedBlob.kind = "File"

SupportedTypes == {"image/jpeg", "image/png", "image/webp"}

NumFiles(b) == Len(supportedFiles[b])

IsSettled(status) == status \in {"resolved", "rejected"}

\* Started and not settled; an invocation whose callback threw stays so.
InFlight(b) == {i \in DOMAIN calls[b] : calls[b][i] \in {"reading", "decoding", "threw"}}

\* The failure notices call b showed for its i-th accepted file.
FailureNotices(b, i) ==
    SelectSeq(emitted[b],
              LAMBDA e : e.ev = "toast" /\ e.toast.about = "failed" /\ e.idx = i)

\* C3: a failing invocation is caught in the loop: it never ends processFiles
\* with an error, it shows exactly one failure notice, which names the file,
\* and the next accepted file is passed to the pipeline in the same step, so
\* that a batch that completes has passed every accepted file.
FailureIsolation ==
    \A b \in BatchIds :
        /\ pc[b] # "failed"
        /\ \A i \in DOMAIN calls[b] :
              IF calls[b][i] = "rejected"
              THEN /\ Len(FailureNotices(b, i)) = 1
                   /\ FailureNotices(b, i)[1].toast.name = supportedFiles[b][i].name
                   /\ FailureNotices(b, i)[1].toast.type = "error"
                   /\ i < NumFiles(b) => calls[b][i + 1] # "none"
              ELSE Len(FailureNotices(b, i)) = 0
        /\ pc[b] = "complete" => \A i \in DOMAIN calls[b] : IsSettled(calls[b][i])

\* C3 witness: a completed batch of three whose first file failed to read, whose
\* second failed to decode and whose third was compressed.
FailureIsolationWitness ==
    \E b \in BatchIds :
        /\ pc[b] = "complete"
        /\ NumFiles(b) = 3
        /\ calls[b] = <<"rejected", "rejected", "resolved">>
        /\ FailureNotices(b, 1)[1].toast.message = "Failed to read file."
        /\ FailureNotices(b, 2)[1].toast.message = "Failed to load image."

\* C4: within one batch at most one invocation is in flight, and the invocation
\* for a file starts only after the one for the file before it has settled.
Sequential ==
    \A b \in BatchIds :
        /\ Cardinality(InFlight(b)) <= 1
        /\ \A i \in DOMAIN calls[b] :
              (i > 1 /\ calls[b][i] # "none") => IsSettled(calls[b][i - 1])
        /\ \A p \in DOMAIN emitted[b] :
              (emitted[b][p].ev = "invoke" /\ emitted[b][p].idx > 1) =>
                  \E q \in 1..(p - 1) :
                      /\ emitted[b][q].ev = "settle"
                      /\ emitted[b][q].kind \in {"resolve", "reject"}
                      /\ emitted[b][q].idx = emitted[b][p].idx - 1

\* C4 witness: the second invocation of a batch is in flight, the first having
\* settled and the third not having started.
SequentialWitness ==
    \E b \in BatchIds :
        /\ NumFiles(b) = 3
        /\ IsSettled(calls[b][1])
        /\ calls[b][2] = "decoding"
        /\ calls[b][3] = "none"

\* C5: no two batches are in progress at once, so the results container never
\* holds cards of two batches.
OneBatchInFlight ==
    /\ \A b, c \in BatchIds : (pc[b] = "running" /\ pc[c] = "running") => b = c
    /\ \A p, q \in DOMAIN resultsContainer :
          resultsContainer[p].batch = resultsContainer[q].batch

\* The settle (resolve or reject) and progress events of call b, in order.
SettleAndProgress(b) ==
    SelectSeq(emitted[b],
              LAMBDA e : \/ e.ev = "progress"
                         \/ (e.ev = "settle" /\ e.kind \in {"resolve", "reject"}))

\* a/b = c/d and a/b <= c/d for fractions <<a, b>>, <<c, d>> with b, d > 0.
FracEq(x, y) == x[1] * y[2] = y[1] * x[2]
FracLeq(x, y) == x[1] * y[2] <= y[1] * x[2]

\* C6: a batch emits exactly one progress update after each file settles, the
\* k-th with value k/n (as a percentage); the values never decrease and 100%
\* is emitted with the last accepted file and not before.
ProgressReporting ==
    \A b \in BatchIds :
        LET P == Events(b, "progress")
            SP == SettleAndProgress(b)
            n == NumFiles(b)
        IN /\ Len(SP) = 2 * Len(P)
           /\ \A j \in DOMAIN SP :
                 IF j % 2 = 1
                 THEN SP[j].ev = "settle"
                 ELSE SP[j].ev = "progress" /\ SP[j].idx = SP[j - 1].idx
           /\ \A k \in DOMAIN P :
                 /\ FracEq(P[k].width, <<k * 100, n>>)
                 /\ k > 1 => FracLeq(P[k - 1].width, P[k].width)
                 /\ FracEq(P[k].width, <<100, 1>>) <=> P[k].idx = n
           /\ Len(P) = Cardinality({i \in DOMAIN calls[b] : IsSettled(calls[b][i])})

\* C6 witness: a completed batch of three, with a failure, has emitted three
\* progress updates.
ProgressReportingWitness ==
    \E b \in BatchIds :
        /\ pc[b] = "complete"
        /\ NumFiles(b) = 3
        /\ calls[b][2] = "rejected"
        /\ Len(Events(b, "progress")) = 3

RECURSIVE AcceptedOf(_)
\* The subsequence of the files of a supported type, in order.
AcceptedOf(fl) ==
    IF fl = <<>> THEN <<>>
    ELSE IF Head(fl).type \in SupportedTypes
         THEN <<Head(fl)>> \o AcceptedOf(Tail(fl))
         ELSE AcceptedOf(Tail(fl))

\* C7: the accepted sequence is the subsequence of the input files of type
\* image/jpeg, image/png or image/webp, in input order, and no file of another
\* type is passed to the pipeline.
Filtering ==
    \A b \in BatchIds :
        /\ WasCalled(b) => supportedFiles[b] = AcceptedOf(files[b])
        /\ \A e \in Range(Events(b, "invoke")) :
              /\ e.idx \in DOMAIN supportedFiles[b]
              /\ supportedFiles[b][e.idx].type \in SupportedTypes
        /\ \A i \in DOMAIN calls[b] :
              calls[b][i] # "none" => supportedFiles[b][i].type \in SupportedTypes

\* C7 witness: the input [jpeg, pdf, png] was given and the batch completed.
FilteringWitness ==
    \E b \in BatchIds :
        /\ pc[b] = "complete"
        /\ Len(files[b]) = 3
        /\ files[b][1].type = "image/jpeg"
        /\ files[b][2].type = "application/pdf"
        /\ files[b][3].type = "image/png"
        /\ Len(Events(b, "invoke")) = 2

\* C8: a non-empty input without a file of a supported type gives exactly one
\* 'none supported' notice and nothing else: no invocation, no progress update,
\* no batch-complete notice.
AllUnsupported ==
    \A b \in BatchIds :
        (/\ WasCalled(b)
         /\ Len(files[b]) > 0
         /\ \A k \in DOMAIN files[b] : files[b][k].type \notin SupportedTypes)
        => /\ emitted[b] = <<Toast(0, NoneSupportedToast)>>
           /\ calls[b] = <<>>
           /\ pc[b] = "returned"
           /\ completedCount[b] = 0

\* C8 witness: processFiles was given two files, both of an unsupported type.
AllUnsupportedWitness ==
    \E b \in BatchIds :
        /\ WasCalled(b)
        /\ Len(files[b]) = 2
        /\ \A k \in DOMAIN files[b] : files[b][k].type \notin SupportedTypes

\* The batch-complete notices call b showed.
CompleteNotices(b) ==
    SelectSeq(emitted[b], LAMBDA e : e.ev = "toast" /\ e.toast.about = "complete")

\* C9: a batch shows no batch-complete notice before all its n >= 1 files have
\* settled, and exactly one once they have: as the last thing it emits, after
\* the n-th progress update, carrying n = successes + failures.
Completion ==
    \A b \in BatchIds :
        LET n == NumFiles(b)
            done == CompleteNotices(b)
            successes == Cardinality({i \in DOMAIN calls[b] : calls[b][i] = "resolved"})
            failures == Cardinality({i \in DOMAIN calls[b] : calls[b][i] = "rejected"})
        IN IF pc[b] = "complete"
           THEN /\ n >= 1
                /\ Len(done) = 1
                /\ done[1].toast.count = n
                /\ successes + failures = n
                /\ Last(emitted[b]) = done[1]
                /\ Len(Events(b, "progress")) = n
                /\ emitted[b][Len(emitted[b]) - 1].ev = "progress"
           ELSE /\ Len(done) = 0
                /\ (pc[b] = "running" => \E i \in DOMAIN calls[b] : ~IsSettled(calls[b][i]))

\* C9 witness: a batch of three completed with two successes and one failure.
CompletionWitness ==
    \E b \in BatchIds :
        /\ pc[b] = "complete"
        /\ calls[b] = <<"resolved", "rejected", "resolved">>
        /\ CompleteNotices(b)[1].toast.count = 3

\* The per-file outcomes of call b: result cards and failure notices, in order.
Outcomes(b) ==
    SelectSeq(emitted[b],
              LAMBDA e : \/ e.ev = "card"
                         \/ (e.ev = "toast" /\ e.toast.about = "failed"))

OutcomeName(e) == IF e.ev = "card" THEN e.card.name ELSE e.toast.name

\* C10: the outcomes a batch produces are one per settled accepted file, in the
\* input order of the accepted files (a card for a success, a failure notice
\* for a failure), one per accepted file when the batch completes; the cards it
\* puts in the results container are in that order too.
OrderPreserved ==
    \A b \in BatchIds :
        LET O == Outcomes(b)
        IN /\ \A k \in DOMAIN O :
                 /\ O[k].idx = k
                 /\ OutcomeName(O[k]) = supportedFiles[b][k].name
                 /\ O[k].ev = "card" <=> calls[b][k] = "resolved"
                 /\ O[k].ev = "toast" <=> calls[b][k] = "rejected"
           /\ Len(O) = Cardinality({i \in DOMAIN calls[b] : IsSettled(calls[b][i])})
           /\ pc[b] = "complete" => Len(O) = NumFiles(b)
           /\ \A p, q \in DOMAIN resultsContainer :
                 (/\ p < q
                  /\ resultsContainer[p].batch = b
                  /\ resultsContainer[q].batch = b)
                 => resultsContainer[p].idx < resultsContainer[q].idx
           /\ mobileResultsCarousel = resultsContainer

\* C10 witness: [A, B, C] with B failing to decode gave success(A), failure(B),
\* success(C), and the container holds the cards of A and C in that order.
OrderPreservedWitness ==
    \E b \in BatchIds :
        /\ pc[b] = "complete"
        /\ NumFiles(b) = 3
        /\ Len(Outcomes(b)) = 3
        /\ Outcomes(b)[1].ev = "card"
        /\ Outcomes(b)[2].ev = "toast"
        /\ Outcomes(b)[2].toast.message = "Failed to load image."
        /\ Outcomes(b)[3].ev = "card"
        /\ Len(resultsContainer) = 2
        /\ resultsContainer[1].idx = 1
        /\ resultsContainer[2].idx = 3

\* C11: under fair callbacks, every call of processFiles that enters its loop
\* (at least one accepted file) eventually shows its completion notice, whatever
\* the types and the natural sizes of the images.
RunToCompletion ==
    \A b \in BatchIds : (pc[b] = "running") ~> (pc[b] = "complete")

\* Call b was made after an earlier call had completed, while no call was in
\* progress, and no call was made since.
CalledAfterCompleted(b) ==
    /\ WasCalled(b)
    /\ \E a \in BatchIds : pcAtCall[b][a] = "complete"
    /\ \A a \in BatchIds : pcAtCall[b][a] # "running"
    /\ \A c \in BatchIds : c > b => ~WasCalled(c)

\* container holds the cards of the successes of call b so far, and nothing else.
HoldsSuccessesOf(container, b) ==
    /\ Len(container) = Len(Resolved(b))
    /\ \A k \in DOMAIN container :
          /\ container[k].batch = b
          /\ container[k].idx = Resolved(b)[k].idx
          /\ container[k].card.name = supportedFiles[b][container[k].idx].name
          /\ container[k].card.finalSize = Resolved(b)[k].value.compressedSize

\* C12: from the moment processFiles is called after an earlier batch has
\* completed, the results displayed are those of the new call only: nothing of
\* the earlier batch is left while the new files are processed, and when the new
\* batch completes the containers hold exactly its successes.
NoAccumulation ==
    \A b \in BatchIds :
        CalledAfterCompleted(b)
        => /\ HoldsSuccessesOf(resultsContainer, b)
           /\ HoldsSuccessesOf(mobileResultsCarousel, b)

\* C12 witness: a first batch completed with a card displayed, then a second
\* batch was started and completed with a success of its own.
NoAccumulationWitness ==
    \E a, b \in BatchIds :
        /\ a < b
        /\ CalledAfterCompleted(b)
        /\ pcAtCall[b][a] = "complete"
        /\ Len(Resolved(a)) >= 1
        /\ pc[b] = "complete"
        /\ Len(Resolved(b)) >= 1
        /\ Len(resultsContainer) >= 1

\* C13: compressImage called on a file whose type is none of image/jpeg,
\* image/png and image/webp performs no read, decode or render step, and when it
\* ends it has rejected with 'Unsupported file format.', whatever the reader and
\* the decoder answer.
UnsupportedRejectedFirst ==
    (direct.stage # "idle" /\ direct.file.type \notin SupportedTypes)
    => /\ \A k \in DOMAIN direct.steps :
             direct.steps[k] \notin {"read", "decode", "render"}
       /\ direct.stage = "ended"
             => direct.outcome = Reject("Unsupported file format.")

\* C14: an image of natural size w x h within MAX_DIMENSION on both sides gets
\* a canvas of w x h; otherwise the larger side of the canvas is MAX_DIMENSION
\* and the smaller one is smaller * MAX_DIMENSION / larger, truncated.
TargetDimensions ==
    (direct.stage = "ended" /\ direct.natural # <<>>)
    => LET w == direct.natural[1]
           h == direct.natural[2]
           larger == IF w >= h THEN w ELSE h
           scaled(x) == IF x = larger THEN MAX_DIMENSION
                        ELSE (x * MAX_DIMENSION) \div larger
       IN IF w <= MAX_DIMENSION /\ h <= MAX_DIMENSION
          THEN direct.canvas = [width |-> w, height |-> h]
          ELSE direct.canvas = [width |-> scaled(w), height |-> scaled(h)]

\* The steps of the direct call that settle or abandon its promise.
Endings == SelectSeq(direct.steps, LAMBDA x : x \in {"resolve", "reject", "throw"})

\* C18: once the callbacks of a compressImage call have run, its promise is
\* settled, exactly once and as the last step: resolved with a result, or
\* rejected with 'Failed to read file.', 'Failed to load image.' or
\* 'Unsupported file format.'; it is never left pending.
SingleSettlement ==
    direct.stage = "ended"
    => /\ \/ direct.outcome.kind = "resolve"
          \/ /\ direct.outcome.kind = "reject"
             /\ direct.outcome.message \in {"Failed to read file.",
                                            "Failed to load image.",
                                            "Unsupported file format."}
       /\ Endings = <<direct.outcome.kind>>
       /\ Last(direct.steps) = direct.outcome.kind

\* C19: the canvas of every decoded image (natural width and height at least 1)
\* is at least 1 and at most MAX_DIMENSION on both sides, so it is never empty
\* when it is encoded.
TargetPositive ==
    (direct.stage = "ended" /\ direct.natural # <<>>)
    => /\ direct.canvas.width \in 1..MAX_DIMENSION
       /\ direct.canvas.height \in 1..MAX_DIMENSION

\* C15: a result that is not the original file has type image/jpeg for a JPEG
\* input and image/webp for a PNG or WebP input, encoded at quality 0.25; a
\* result that is the original file has the input's type. A PNG input never
\* gives a re-encoded PNG.
OutputFormatPolicy ==
    (direct.stage = "ended" /\ direct.outcome.kind = "resolve")
    => LET file == direct.file
           blob == direct.outcome.value.compressedBlob
       IN /\ EncodeParams(file.type).quality = 25
          /\ IF blob = file
             THEN blob.type = file.type
             ELSE blob.type = (IF file.type = JPEG THEN JPEG ELSE WEBP)

\* C16: a call of processFiles with an empty list, made while no batch is in
\* progress, shows no notice, invokes compressImage for no file and changes
\* nothing on the page: the results displayed by a completed batch and the
\* visibility of the results section stay as they were.
EmptyInputNoOp ==
    [][\A b \in BatchIds :
          (/\ ~WasCalled(b) /\ pc'[b] # "idle" /\ files'[b] = <<>>
           /\ \A a \in BatchIds : pc[a] # "running")
          => /\ emitted'[b] = <<>>
             /\ calls'[b] = <<>>
             /\ UNCHANGED dom]_vars

\* C17: the download name of every card. With a final size below the original
\* size it is the original name without its extension, "_compressed", and the
\* extension webp when the blob's type is WebP, the original extension
\* otherwise; with the original size it is the original name untouched.
SuggestedName ==
    \A b \in BatchIds : \A e \in Range(Events(b, "card")) :
        LET file == supportedFiles[b][e.idx]
            n == Len(file.name)
        IN IF e.card.finalSize < file.size
           THEN e.card.fileName =
                    [stem |-> SubSeq(file.name, 1, n - 1), compressed |-> TRUE,
                     ext |-> IF e.card.blob.type = WEBP THEN "webp" ELSE file.name[n]]
           ELSE /\ e.card.finalSize = file.size
                /\ e.card.fileName = [stem |-> file.name, compressed |-> FALSE, ext |-> ""]

\* C17 witness: a PNG whose WebP re-encoding was smaller got a name ending in
\* webp, a PNG whose WebP re-encoding was discarded kept its name, and a JPEG
\* that was reduced kept its extension.
SuggestedNameWitness ==
    \E b \in BatchIds : \E e, f, g \in Range(Events(b, "card")) :
        /\ supportedFiles[b][e.idx].type = PNG
        /\ e.card.blob.type = WEBP
        /\ e.card.fileName = [stem |-> <<"b">>, compressed |-> TRUE, ext |-> "webp"]
        /\ supportedFiles[b][f.idx].type = PNG
        /\ f.card.blob = supportedFiles[b][f.idx]
        /\ \E r \in Range(Resolved(b)) : r.idx = f.idx /\ r.reencoded.type = WEBP
        /\ f.card.fileName = [stem |-> <<"b", "png">>, compressed |-> FALSE, ext |-> ""]
        /\ supportedFiles[b][g.idx].type = JPEG
        /\ g.card.fileName = [stem |-> <<"a">>, compressed |-> TRUE, ext |-> "jpg"]

====
